---------------------------- MODULE Spec2Model ----------------------------
(***************************************************************************)
(* A model of bin/multi_change.py: the dispatch at the end of __main__     *)
(* (sequential loop, or a queue drained by maxthreads worker threads),     *)
(* connection_queue, device_connection and log_failure.                    *)
(*                                                                         *)
(* Unit 0 is the main thread, units 1..MaxWorkers are the worker threads.  *)
(* A device job is the index of its line in the hosts file; its device    *)
(* name is DeviceName(j), a sequence of characters, and failure.log is the *)
(* sequence of its characters.  One action is one step of one thread: a    *)
(* statement of __main__ or of connection_queue, a queue                   *)
(* operation, one call of the session adapter, or one file operation of    *)
(* log_failure.  An adapter call is synchronous: the calling thread does   *)
(* nothing else until it has returned or raised, so it is one step.        *)
(*                                                                         *)
(* The session adapters (netlib.conn_type.SSH / Telnet) are not part of    *)
(* bin/multi_change.py; whether a call of theirs returns or raises is the   *)
(* device's doing, chosen when the call is made and recorded in trace.     *)
(* An interrupt (KeyboardInterrupt) is an input of the pooled dispatch,     *)
(* which has a handler for it (lines 223-224); the sequential loop has     *)
(* none, and its runs are modelled uninterrupted.                          *)
(***************************************************************************)
EXTENDS Integers, Sequences, FiniteSets, TLC

\* ------------------------------------------------------------- bounds
MaxJobs == 3

MaxWorkers == 2

NumCommands == 2

\* ------------------------------------------------------------- inputs
VARIABLES
    threaded,            \* args['threaded'] (line 203)
    protocol,            \* args['protocol'] (lines 179-182)
    maxthreads,          \* int(args['maxthreads']) (line 214)
    hosts,               \* number of lines of the hosts file (line 168)
    device_names,        \* per job: settings['device_name'] (line 188)
    log_at_start         \* content of failure.log before the run (<<>>: no file)

VARIABLES
    pc,                  \* per unit: its position in the code
    i,                   \* the main thread's loop variable (host / num / t)
    job,                 \* per unit: device_settings it runs (0: none yet)
    cmd,                 \* per unit: index of `command` in the for of line 125
    log_mode,            \* per unit: mode log_failure chose ("-": not in it)
    threads,             \* the list `threads` (line 209)
    device_queue,        \* the items of device_queue (FIFO)
    unfinished_tasks,    \* Queue.unfinished_tasks (put +1, task_done -1)
    log_exists,          \* os.path.isfile('failure.log')
    failure_log,         \* the characters of failure.log
    trace,               \* per job: the adapter calls issued for it, in order
    result,              \* per job: how device_connection ended for it
    invocations          \* per job: number of device_connection calls

inputs == <<threaded, protocol, maxthreads, hosts, device_names, log_at_start>>

vars == <<threaded, protocol, maxthreads, hosts, device_names, log_at_start, pc, i, job, cmd, log_mode, threads, device_queue,
          unfinished_tasks, log_exists, failure_log, trace, result,
          invocations>>

\* ------------------------------------------------------------- data
Units == 0..MaxWorkers

Workers == 1..MaxWorkers

Jobs == 1..hosts

\* The device names a line of the hosts file may hold, as sequences of
\* characters: names of different lengths, and few enough of them that
\* two lines of one file may hold the same name.
Names == {<<"a">>, <<"b", "b", "b">>}

NewLine == "\n"

\* settings['device_name'] = host.strip() (line 188): job j's device name.
\* Nothing makes the names of one run different or of one length.
DeviceName(j) == device_names[j]

\* '{}\n'.format(device_name) (lines 69, 72): what log_failure writes.
LogLine(name) == Append(name, NewLine)

\* failure.log as an earlier run left it: one line, the name of a device
\* that failed then.  An earlier run of the same command leaves the name
\* of a device of this run; the device is not of this run when no line of
\* the hosts file holds that name.
EarlierLog == LogLine(<<"a">>)

\* settings['commands'] = commands (lines 173-177, 195): one list for all jobs.
commands == [k \in 1..NumCommands |-> k]

\* One adapter call as trace records it: what was called, by which unit,
\* and whether it returned (ok) or raised.
Call(op, arg, u, ok) == [op |-> op, arg |-> arg, by |-> u, ok |-> ok]

\* The session adapter's calls: connect(), set_enable(), disable_paging()
\* and command() return or raise; close() does not raise.
Returns(op) == IF op = "close" THEN {TRUE} ELSE BOOLEAN

Dead == {"exited", "died"}

\* The protocols device_connection has a branch for (lines 100, 109), and
\* the only two __main__ stores in a job (lines 179-182).
Protocols == {"ssh", "telnet"}

\* ------------------------------------------------------------- Init
\* The state at line 203: the protocol set (lines 179-182), host_settings
\* built (lines 184-201).
Init ==
    /\ threaded \in BOOLEAN
    /\ protocol \in Protocols
    /\ maxthreads \in 1..MaxWorkers
    /\ (~threaded => maxthreads = 1)      \* not read when not threaded
    /\ hosts \in 0..MaxJobs
    /\ device_names \in [1..hosts -> Names]
    /\ log_at_start \in {<<>>, EarlierLog}
    /\ pc = [u \in Units |-> IF u = 0 THEN IF threaded THEN "put" ELSE "loop"
                             ELSE "unstarted"]
    /\ i = 1
    /\ job = [u \in Units |-> 0]
    /\ cmd = [u \in Units |-> 0]
    /\ log_mode = [u \in Units |-> "-"]
    /\ threads = <<>>
    /\ device_queue = <<>>
    /\ unfinished_tasks = 0
    /\ log_exists = (log_at_start # <<>>)
    /\ failure_log = log_at_start
    /\ trace = [j \in 1..hosts |-> <<>>]
    /\ result = [j \in 1..hosts |-> "none"]
    /\ invocations = [j \in 1..hosts |-> 0]

queueVars == <<threads, device_queue, unfinished_tasks>>

logVars == <<log_exists, failure_log>>

jobVars == <<trace, result, invocations>>

\* ------------------------------------------------- __main__, sequential
\* SeqStart with a loop that steps over every second host.
SeqStartSkipping ==
    /\ pc[0] = "loop"
    /\ i <= hosts
    /\ job' = [job EXCEPT ![0] = i]
    /\ invocations' = [invocations EXCEPT ![i] = @ + 1]
    /\ pc' = [pc EXCEPT ![0] = "connect"]
    /\ i' = i + 2
    /\ UNCHANGED <<inputs, cmd, log_mode, queueVars, logVars, trace, result>>

\* Lines 204-205: the next host of host_settings is handed to
\* device_connection on the main thread.
SeqStart ==
    /\ pc[0] = "loop"
    /\ i <= hosts
    /\ job' = [job EXCEPT ![0] = i]
    /\ invocations' = [invocations EXCEPT ![i] = @ + 1]
    /\ pc' = [pc EXCEPT ![0] = "connect"]
    /\ i' = i + 1
    /\ UNCHANGED <<inputs, cmd, log_mode, queueVars, logVars, trace, result>>

\* Line 204: host_settings is exhausted, the program ends.
SeqEnd ==
    /\ pc[0] = "loop"
    /\ i > hosts
    /\ pc' = [pc EXCEPT ![0] = "done"]
    /\ UNCHANGED <<inputs, i, job, cmd, log_mode, queueVars, logVars, jobVars>>

\* ----------------------------------------------------- __main__, pooled
\* Lines 211-212: device_queue.put(host), as far as self._put(item) of
\* Queue.put: the item is on the queue, unfinished_tasks not yet counted.
Put ==
    /\ pc[0] = "put"
    /\ i <= hosts
    /\ device_queue' = Append(device_queue, i)
    /\ pc' = [pc EXCEPT ![0] = "put_count"]
    /\ UNCHANGED <<inputs, i, job, cmd, log_mode, threads, unfinished_tasks,
                   logVars, jobVars>>

\* Line 212, the rest of Queue.put: unfinished_tasks += 1, and put()
\* returns to the for of line 211.
PutCount ==
    /\ pc[0] = "put_count"
    /\ unfinished_tasks' = unfinished_tasks + 1
    /\ pc' = [pc EXCEPT ![0] = "put"]
    /\ i' = i + 1
    /\ UNCHANGED <<inputs, job, cmd, log_mode, threads, device_queue,
                   logVars, jobVars>>

\* PutEnd that may leave the for of line 211 before host_settings is
\* exhausted.
PutEndEarly ==
    /\ pc[0] = "put"
    /\ pc' = [pc EXCEPT ![0] = "start"]
    /\ i' = 1
    /\ UNCHANGED <<inputs, job, cmd, log_mode, queueVars, logVars, jobVars>>

\* Line 211 exhausted: on to the for of line 214.
PutEnd ==
    /\ pc[0] = "put"
    /\ i > hosts
    /\ pc' = [pc EXCEPT ![0] = "start"]
    /\ i' = 1
    /\ UNCHANGED <<inputs, job, cmd, log_mode, queueVars, logVars, jobVars>>

\* StartThread with a for that does not stop at maxthreads (it may start a
\* thread for every unit there is).
StartThreadExtra ==
    /\ pc[0] = "start"
    /\ i <= MaxWorkers
    /\ pc' = [pc EXCEPT ![i] = "get", ![0] = "append"]
    /\ UNCHANGED <<inputs, i, job, cmd, log_mode, queueVars, logVars, jobVars>>

\* Lines 214-218: one more thread is created and started; start() returns
\* once the new thread runs (it is at line 137 of connection_queue).
StartThread ==
    /\ pc[0] = "start"
    /\ i <= maxthreads
    /\ pc' = [pc EXCEPT ![i] = "get", ![0] = "append"]
    /\ UNCHANGED <<inputs, i, job, cmd, log_mode, queueVars, logVars, jobVars>>

\* Line 219: threads.append(thread), a statement of its own after start():
\* the started thread runs before it is in the list.
ThreadsAppend ==
    /\ pc[0] = "append"
    /\ threads' = Append(threads, i)
    /\ pc' = [pc EXCEPT ![0] = "start"]
    /\ i' = i + 1
    /\ UNCHANGED <<inputs, job, cmd, log_mode, device_queue, unfinished_tasks,
                   logVars, jobVars>>

\* Line 214 exhausted: on to the for of line 221.
StartEnd ==
    /\ pc[0] = "start"
    /\ i > maxthreads
    /\ pc' = [pc EXCEPT ![0] = "join"]
    /\ i' = 1
    /\ UNCHANGED <<inputs, job, cmd, log_mode, queueVars, logVars, jobVars>>

\* Join with a join() that returns at once (as join(timeout=0) would).
JoinNoWait ==
    /\ pc[0] = "join"
    /\ i <= Len(threads)
    /\ i' = i + 1
    /\ UNCHANGED <<inputs, pc, job, cmd, log_mode, queueVars, logVars, jobVars>>

\* Lines 221-222: t.join() returns once thread t has ended.
Join ==
    /\ pc[0] = "join"
    /\ i <= Len(threads)
    /\ pc[threads[i]] \in Dead
    /\ i' = i + 1
    /\ UNCHANGED <<inputs, pc, job, cmd, log_mode, queueVars, logVars, jobVars>>

\* Line 221 exhausted: the dispatch is over, the program ends.
JoinEnd ==
    /\ pc[0] = "join"
    /\ i > Len(threads)
    /\ pc' = [pc EXCEPT ![0] = "done"]
    /\ UNCHANGED <<inputs, i, job, cmd, log_mode, queueVars, logVars, jobVars>>

\* Lines 223-224: a KeyboardInterrupt reaches the main thread inside the
\* try of lines 207-222 (before, inside or after a put, in the start
\* loop, or waiting in a join): exit(1).  The main thread leaves the dispatch; the threads
\* started so far are not daemons and run on, and the process ends, with
\* status 1, when they have ended.
Interrupt ==
    /\ pc[0] \in {"put", "put_count", "start", "append", "join"}
    /\ pc' = [pc EXCEPT ![0] = "interrupted"]
    /\ UNCHANGED <<inputs, i, job, cmd, log_mode, queueVars, logVars, jobVars>>

\* ---------------------------------------------------- connection_queue
\* Get with a get() that reads the head of the queue and leaves it there.
GetPeek(u) ==
    /\ pc[u] = "get"
    /\ device_queue # <<>>
    /\ job' = [job EXCEPT ![u] = Head(device_queue)]
    /\ pc' = [pc EXCEPT ![u] = "call"]
    /\ UNCHANGED <<inputs, i, cmd, log_mode, queueVars, logVars, jobVars>>

\* Line 139: get() returns the head of the queue (Queue.get takes the item
\* under the queue's mutex, and releases the mutex when it returns).
Get(u) ==
    /\ pc[u] = "get"
    /\ device_queue # <<>>
    /\ job' = [job EXCEPT ![u] = Head(device_queue)]
    /\ device_queue' = Tail(device_queue)
    /\ pc' = [pc EXCEPT ![u] = "call"]
    /\ UNCHANGED <<inputs, i, cmd, log_mode, threads, unfinished_tasks,
                   logVars, jobVars>>

\* Line 142: device_connection(device_settings) is called with the job
\* dequeued, in a statement of its own after the get().
DeviceConnection(u) ==
    /\ pc[u] = "call"
    /\ invocations' = [invocations EXCEPT ![job[u]] = @ + 1]
    /\ pc' = [pc EXCEPT ![u] = "connect"]
    /\ UNCHANGED <<inputs, i, job, cmd, log_mode, queueVars, logVars, trace,
                   result>>

\* Lines 139-141: the queue stayed empty for the timeout (nothing is put
\* once a worker runs): queue.Empty, break, the thread ends.
GetEmpty(u) ==
    /\ pc[u] = "get"
    /\ device_queue = <<>>
    /\ pc' = [pc EXCEPT ![u] = "exited"]
    /\ UNCHANGED <<inputs, i, job, cmd, log_mode, queueVars, logVars, jobVars>>

\* Line 143: devices_queue.task_done(), then back to line 137.
TaskDone(u) ==
    /\ pc[u] = "task_done"
    /\ unfinished_tasks' = unfinished_tasks - 1
    /\ pc' = [pc EXCEPT ![u] = "get"]
    /\ UNCHANGED <<inputs, i, job, cmd, log_mode, threads, device_queue,
                   logVars, jobVars>>

\* --------------------------------------------------- device_connection
\* Where a unit goes when device_connection returns: the main thread to
\* its for (line 204), a worker to line 143.
AfterReturn(u) == IF u = 0 THEN "loop" ELSE "task_done"

\* An exception leaves device_connection: nothing in connection_queue or
\* in __main__ catches it, so the thread that ran the job ends.
Raised(u) ==
    /\ pc' = [pc EXCEPT ![u] = "died"]
    /\ result' = [result EXCEPT ![job[u]] = "raised"]

\* Issue on one session object shared by all threads (as a module-level
\* `access` would be): every call lands on the session of the first job.
IssueOnShared(u, op, arg, ok) ==
    trace' = [trace EXCEPT ![1] = Append(@, Call(op, arg, u, ok))]

\* Lines 89-98, 101, 110: ssh_conn, telnet_conn and access are locals of
\* one device_connection call, so a call on access is a call on the
\* session of the job the calling unit runs.
Issue(u, op, arg, ok) ==
    trace' = [trace EXCEPT ![job[u]] = Append(@, Call(op, arg, u, ok))]

\* Lines 100-104 (ssh) and 109-113 (telnet): access.connect().  A failure
\* is caught (lines 105, 114) and goes on to log_failure.  The else branch
\* of lines 118-120 is never taken: every job holds the protocol lines
\* 179-182 set, 'telnet' or 'ssh'.
Connect(u) ==
    /\ pc[u] = "connect"
    /\ protocol \in Protocols
    /\ \E ok \in Returns("connect") :
          /\ Issue(u, "connect", 0, ok)
          /\ pc' = [pc EXCEPT ![u] = IF ok THEN "set_enable" ELSE "log_isfile"]
    /\ UNCHANGED <<inputs, i, job, cmd, log_mode, queueVars, logVars,
                   result, invocations>>

\* Line 122: access.set_enable(enable_password).
SetEnable(u) ==
    /\ pc[u] = "set_enable"
    /\ \E ok \in Returns("set_enable") :
          /\ Issue(u, "set_enable", 0, ok)
          /\ IF ok
             THEN /\ pc' = [pc EXCEPT ![u] = "disable_paging"]
                  /\ UNCHANGED result
             ELSE Raised(u)
    /\ UNCHANGED <<inputs, i, job, cmd, log_mode, queueVars, logVars,
                   invocations>>

\* Line 123: access.disable_paging(), then the for of line 125 begins.
DisablePaging(u) ==
    /\ pc[u] = "disable_paging"
    /\ \E ok \in Returns("disable_paging") :
          /\ Issue(u, "disable_paging", 0, ok)
          /\ IF ok
             THEN /\ pc' = [pc EXCEPT ![u] = IF Len(commands) = 0 THEN "close"
                                             ELSE "command"]
                  /\ cmd' = [cmd EXCEPT ![u] = 1]
                  /\ UNCHANGED result
             ELSE Raised(u) /\ UNCHANGED cmd
    /\ UNCHANGED <<inputs, i, job, log_mode, queueVars, logVars, invocations>>

\* Command with the list walked from its end (for command in
\* reversed(commands)).
CommandReversed(u) ==
    /\ pc[u] = "command"
    /\ \E ok \in Returns("command") :
          /\ Issue(u, "command", commands[Len(commands) + 1 - cmd[u]], ok)
          /\ IF ok
             THEN /\ IF cmd[u] < Len(commands)
                     THEN cmd' = [cmd EXCEPT ![u] = @ + 1] /\ UNCHANGED pc
                     ELSE pc' = [pc EXCEPT ![u] = "close"] /\ UNCHANGED cmd
                  /\ UNCHANGED result
             ELSE Raised(u) /\ UNCHANGED cmd
    /\ UNCHANGED <<inputs, i, job, log_mode, queueVars, logVars, invocations>>

\* Command inside a try whose except clause passes: a failing command is
\* swallowed and the loop goes on.
CommandIgnoresFailure(u) ==
    /\ pc[u] = "command"
    /\ \E ok \in Returns("command") :
          /\ Issue(u, "command", commands[cmd[u]], ok)
          /\ IF cmd[u] < Len(commands)
             THEN cmd' = [cmd EXCEPT ![u] = @ + 1] /\ UNCHANGED pc
             ELSE pc' = [pc EXCEPT ![u] = "close"] /\ UNCHANGED cmd
          /\ UNCHANGED result
    /\ UNCHANGED <<inputs, i, job, log_mode, queueVars, logVars, invocations>>

\* Lines 125-130: access.command(command) for the next command of the list.
Command(u) ==
    /\ pc[u] = "command"
    /\ \E ok \in Returns("command") :
          /\ Issue(u, "command", commands[cmd[u]], ok)
          /\ IF ok
             THEN /\ IF cmd[u] < Len(commands)
                     THEN cmd' = [cmd EXCEPT ![u] = @ + 1] /\ UNCHANGED pc
                     ELSE pc' = [pc EXCEPT ![u] = "close"] /\ UNCHANGED cmd
                  /\ UNCHANGED result
             ELSE Raised(u) /\ UNCHANGED cmd
    /\ UNCHANGED <<inputs, i, job, log_mode, queueVars, logVars, invocations>>

\* Lines 132-133: access.close(), and device_connection returns.
Close(u) ==
    /\ pc[u] = "close"
    /\ \E ok \in Returns("close") : Issue(u, "close", 0, ok)
    /\ result' = [result EXCEPT ![job[u]] = "returned"]
    /\ pc' = [pc EXCEPT ![u] = AfterReturn(u)]
    /\ UNCHANGED <<inputs, i, job, cmd, log_mode, queueVars, logVars,
                   invocations>>

\* ---------------------------------------------------------- log_failure
\* LogIsFile without the test of line 67: the file is always opened 'w'.
LogIsFileAlwaysW(u) ==
    /\ pc[u] = "log_isfile"
    /\ log_mode' = [log_mode EXCEPT ![u] = "w"]
    /\ pc' = [pc EXCEPT ![u] = "log_open"]
    /\ UNCHANGED <<inputs, i, job, cmd, queueVars, logVars, jobVars>>

\* Line 67: os.path.isfile(log_file) picks the branch, and so the mode.
LogIsFile(u) ==
    /\ pc[u] = "log_isfile"
    /\ log_mode' = [log_mode EXCEPT ![u] = IF log_exists THEN "a" ELSE "w"]
    /\ pc' = [pc EXCEPT ![u] = "log_open"]
    /\ UNCHANGED <<inputs, i, job, cmd, queueVars, logVars, jobVars>>

\* Lines 68 and 71: open(log_file, mode).  'w' creates or truncates the
\* file and leaves the handle at offset 0; 'a' leaves the file as it is.
LogOpen(u) ==
    /\ pc[u] = "log_open"
    /\ log_exists' = TRUE
    /\ failure_log' = IF log_mode[u] = "w" THEN <<>> ELSE failure_log
    /\ pc' = [pc EXCEPT ![u] = "log_write"]
    /\ UNCHANGED <<inputs, i, job, cmd, log_mode, queueVars, jobVars>>

\* What the file holds after the characters `data` are written through a
\* handle of `mode`: an 'a' handle writes at the end of the file; a 'w'
\* handle writes at its own offset, 0, over the first Len(data) characters
\* another handle has written there since, and leaves the rest.
Written(file, mode, data) ==
    IF mode = "a"
    THEN file \o data
    ELSE data \o SubSeq(file, Len(data) + 1, Len(file))

\* Lines 69 and 72, and the end of the with block: the buffered line
\* reaches the file when the handle is closed.  Then the except clause
\* ends: pass (line 108, ssh) goes on to line 122; raise (line 117,
\* telnet) leaves device_connection.
LogWrite(u) ==
    /\ pc[u] = "log_write"
    /\ failure_log' = Written(failure_log, log_mode[u],
                              LogLine(DeviceName(job[u])))
    /\ log_mode' = [log_mode EXCEPT ![u] = "-"]
    /\ IF protocol = "ssh"
       THEN /\ pc' = [pc EXCEPT ![u] = "set_enable"]
            /\ UNCHANGED result
       ELSE Raised(u)
    /\ UNCHANGED <<inputs, i, job, cmd, queueVars, log_exists, trace,
                   invocations>>

\* ------------------------------------------------------- specification
Next ==
    \/ SeqStart
    \/ SeqEnd
    \/ Put
    \/ PutCount
    \/ PutEnd
    \/ StartThread
    \/ ThreadsAppend
    \/ StartEnd
    \/ Join
    \/ JoinEnd
    \/ Interrupt
    \/ \E u \in Workers : Get(u)
    \/ \E u \in Workers : DeviceConnection(u)
    \/ \E u \in Workers : GetEmpty(u)
    \/ \E u \in Workers : TaskDone(u)
    \/ \E u \in Units : Connect(u)
    \/ \E u \in Units : LogIsFile(u)
    \/ \E u \in Units : LogOpen(u)
    \/ \E u \in Units : LogWrite(u)
    \/ \E u \in Units : SetEnable(u)
    \/ \E u \in Units : DisablePaging(u)
    \/ \E u \in Units : Command(u)
    \/ \E u \in Units : Close(u)

Spec == Init /\ [][Next]_vars

\* The sequential runs alone (line 203: args['threaded'] not set): the
\* loop of lines 204-205 and device_connection on the main thread.
InitSeq == Init /\ ~threaded

NextSeq ==
    \/ SeqStart
    \/ SeqEnd
    \/ Connect(0)
    \/ LogIsFile(0)
    \/ LogOpen(0)
    \/ LogWrite(0)
    \/ SetEnable(0)
    \/ DisablePaging(0)
    \/ Command(0)
    \/ Close(0)

SeqSpec == InitSeq /\ [][NextSeq]_vars

\* ------------------------------------------------ vocabulary of the claims
\* The uninterrupted run is over: the main thread has left the dispatch
\* (done), or an exception has ended it (died; sequential mode only).
RunEnded == pc[0] \in {"done", "died"}

\* The pooled dispatch (lines 207-222) has returned (no interrupt).
DispatchReturned == threaded /\ pc[0] = "done"

Started(j) == invocations[j] >= 1

Issued(j, op) == {k \in 1..Len(trace[j]) : trace[j][k].op = op}

ConnectFailed(j) == \E k \in Issued(j, "connect") : ~trace[j][k].ok

Closed(j) == Issued(j, "close") # {}

AllOk(j) == \A k \in 1..Len(trace[j]) : trace[j][k].ok

InProgress(j) == Started(j) /\ result[j] = "none"

\* The number of elements of the sequence s that are equal to e.
Occurrences(s, e) == Cardinality({k \in 1..Len(s) : s[k] = e})

\* The set of the elements of the sequence s.
Lines(s) == {s[k] : k \in 1..Len(s)}

\* The position of the first NewLine of file (0: none).
FirstNewLine(file) ==
    IF \E k \in 1..Len(file) : file[k] = NewLine
    THEN CHOOSE k \in 1..Len(file) :
            /\ file[k] = NewLine
            /\ \A l \in 1..(k - 1) : file[l] # NewLine
    ELSE 0

RECURSIVE FileLines(_)
\* The lines of a file, in order, each without its NewLine (as
\* f.read().splitlines() gives them).
FileLines(file) ==
    IF file = <<>>
    THEN <<>>
    ELSE IF FirstNewLine(file) = 0
         THEN <<file>>
         ELSE <<SubSeq(file, 1, FirstNewLine(file) - 1)>>
              \o FileLines(SubSeq(file, FirstNewLine(file) + 1, Len(file)))

\* The lines of failure.log now, and when the run began.
LogLines == FileLines(failure_log)

LinesAtStart == FileLines(log_at_start)

\* The jobs named n whose connect() has failed.
FailedNamed(n) == {j \in Jobs : DeviceName(j) = n /\ ConnectFailed(j)}

IsPrefix(s, t) == Len(s) <= Len(t) /\ SubSeq(t, 1, Len(s)) = s

\* The calls of a job on a reachable device, made by unit u (lines 100-133).
Expected(u) ==
    <<Call("connect", 0, u, TRUE), Call("set_enable", 0, u, TRUE),
      Call("disable_paging", 0, u, TRUE)>>
    \o [k \in 1..Len(commands) |-> Call("command", commands[k], u, TRUE)]
    \o <<Call("close", 0, u, TRUE)>>

RECURSIVE SumOver(_, _)
\* The sum of f[j] over the jobs 1..n.
SumOver(f, n) == IF n = 0 THEN 0 ELSE f[n] + SumOver(f, n - 1)

RunnerInvocations == SumOver(invocations, hosts)

CommandCalls ==
    SumOver([j \in Jobs |-> Cardinality(Issued(j, "command"))], hosts)

\* The only adapter calls that have raised are connect() calls.
OnlyConnectsFailed ==
    \A j \in Jobs : \A k \in 1..Len(trace[j]) :
        ~trace[j][k].ok => trace[j][k].op = "connect"

\* The jobs a sequential run reaches when every device behaves as trace
\* has it: job j is reached when all jobs before it have returned.
SeqReached == {j \in Jobs : \A k \in 1..(j - 1) : result[k] = "returned"}

\* The names a sequential run over the same devices writes to the log.
SeqLogged == {DeviceName(j) : j \in {k \in SeqReached : ConnectFailed(k)}}

\* ------------------------------------------------------------- claims
\* C1: in pooled mode every one of the N jobs put on the queue has been
\* handed to device_connection exactly once when the dispatch has ended
\* (no job run twice, no job left unprocessed).
C1_EveryJobOnce ==
    DispatchReturned => \A j \in Jobs : invocations[j] = 1

\* C2: a failing connect() does not stop the batch: when the run has ended
\* and nothing but connect() calls have failed, every job of the run has
\* been started and run by device_connection.
C2_FailureIsolation ==
    (RunEnded /\ OnlyConnectsFailed) => \A j \in Jobs : Started(j)

\* C3: when the run has ended, the device name of every job whose
\* connect() failed is in the failure log exactly once for that job: as
\* many times more than when the run began as there are jobs of that name
\* whose connect() failed.
C3_LoggedOnce ==
    RunEnded =>
        \A j \in Jobs :
            ConnectFailed(j) =>
                Occurrences(LogLines, DeviceName(j)) =
                    Occurrences(LinesAtStart, DeviceName(j))
                    + Cardinality(FailedNamed(DeviceName(j)))

\* C4: when the pooled dispatch has returned, all maxthreads workers have
\* been started and every one of them has ended; the main thread is never
\* past the dispatch while a worker still runs.
C4_Join ==
    DispatchReturned =>
        /\ Len(threads) = maxthreads
        /\ \A w \in 1..maxthreads : pc[w] \in Dead

C4_Witness ==
    /\ DispatchReturned
    /\ maxthreads = 2
    /\ hosts >= 2
    /\ \E w \in Workers : pc[w] = "exited"
    /\ \E w \in Workers : pc[w] = "died"

\* C5: whenever device_connection has ended for a job, after success, after
\* a failing command() or after a failing connect(), close() has been
\* called on the job's adapter.
C5_ClosedOnEveryExit ==
    \A j \in Jobs :
        (/\ result[j] # "none"
         /\ \A k \in 1..Len(trace[j]) :
               ~trace[j][k].ok => trace[j][k].op \in {"connect", "command"})
        => Closed(j)

\* C6: for a job all of whose adapter calls succeed, the calls issued are,
\* at every moment, a prefix of connect, set_enable, disable_paging, every
\* command once in list order, close, all by one unit; device_connection
\* never raises for it, has returned exactly when the whole sequence has
\* been issued, and has returned when the run has ended.
C6_ReachableJobRunsInOrder ==
    \A j \in Jobs :
        AllOk(j) =>
            /\ result[j] # "raised"
            /\ \E u \in Units :
                  /\ IsPrefix(trace[j], Expected(u))
                  /\ result[j] = "returned" <=> trace[j] = Expected(u)
            /\ (RunEnded /\ Started(j)) => result[j] = "returned"

C6_Witness ==
    \E j \in Jobs :
        /\ AllOk(j)
        /\ result[j] = "returned"
        /\ Len(trace[j]) = Len(commands) + 4
        /\ Len(commands) >= 2

\* C7: the failure log is safe under concurrent log_failure calls: no step
\* removes or overwrites a line (the log only ever extends), and when the
\* run has ended the log holds one line per log_failure call more than it
\* held at the start.
C7_LogSafeUnderConcurrency ==
    /\ [][IsPrefix(failure_log, failure_log')]_vars
    /\ [](RunEnded =>
            Len(LogLines) =
                Len(LinesAtStart) + Cardinality({j \in Jobs : ConnectFailed(j)}))

\* C8: whatever the mode, the worker count and the interleaving, the set
\* of names in the final failure log is the set a sequential run over the
\* same devices leaves there.
C8_SameLogAsSequential ==
    RunEnded => Lines(LogLines) = Lines(LinesAtStart) \cup SeqLogged

\* C9: no job is dequeued twice, no two units hold the same job, and a job
\* a unit holds is no longer in the queue.
C9_AtMostOnceDequeue ==
    /\ \A j \in Jobs : invocations[j] <= 1
    /\ \A u, v \in Units : (u # v /\ job[u] # 0) => job[u] # job[v]
    /\ \A u \in Units : \A k \in 1..Len(device_queue) : device_queue[k] # job[u]

C9_Witness ==
    /\ job[1] # 0
    /\ job[2] # 0
    /\ InProgress(job[1])
    /\ InProgress(job[2])
    /\ device_queue # <<>>

\* C10 as stated: in sequential mode a job is started only when every job
\* before it has finished, at most one job is in progress, and a run all
\* of whose connect() calls succeed ends with one runner invocation per
\* device, one command() call per device and command, and no line added
\* to the failure log.
C10_AsStated ==
    ~threaded =>
        /\ \A j \in Jobs : Started(j) => \A k \in 1..(j - 1) : result[k] # "none"
        /\ Cardinality({j \in Jobs : InProgress(j)}) <= 1
        /\ (RunEnded /\ \A j \in Jobs : ~ConnectFailed(j)) =>
              /\ RunnerInvocations = hosts
              /\ CommandCalls = hosts * Len(commands)
              /\ failure_log = log_at_start

\* C10, amended: the same, for a run all of whose adapter calls succeed
\* (connect, set_enable, disable_paging and every command).
C10_SequentialInOrder ==
    ~threaded =>
        /\ \A j \in Jobs : Started(j) => \A k \in 1..(j - 1) : result[k] # "none"
        /\ Cardinality({j \in Jobs : InProgress(j)}) <= 1
        /\ (RunEnded /\ \A j \in Jobs : AllOk(j)) =>
              /\ RunnerInvocations = hosts
              /\ CommandCalls = hosts * Len(commands)
              /\ failure_log = log_at_start

\* 3 devices, 2 commands, every call succeeds: 3 invocations, 6 commands.
C10_Witness ==
    /\ ~threaded
    /\ pc[0] = "done"
    /\ hosts = 3
    /\ \A j \in Jobs : AllOk(j)
    /\ RunnerInvocations = 3
    /\ CommandCalls = 6
    /\ failure_log = log_at_start

\* C11, amended: a pooled run with at least 2 workers in which the
\* connect() of exactly one job fails and every adapter call of every
\* other job succeeds ends
\* with exactly one line added to the failure log, the failing host's
\* name, and with every other job returned after its full call sequence
\* (all commands issued, session closed).
C11_OneUnreachableHost ==
    \A f \in Jobs :
        (/\ DispatchReturned
         /\ maxthreads >= 2
         /\ ConnectFailed(f)
         /\ \A j \in Jobs \ {f} : AllOk(j))
        => /\ failure_log = log_at_start \o LogLine(DeviceName(f))
           /\ \A j \in Jobs \ {f} :
                 /\ result[j] = "returned"
                 /\ \E u \in Workers : trace[j] = Expected(u)

\* C11 as stated: a pooled run with 2 workers and 3 jobs, the connect()
\* of exactly one of which fails, ends with a failure log of exactly one
\* line, the failing host's name, and with the other 2 jobs done (all
\* their commands issued, their sessions closed, device_connection
\* returned).
C11_AsStated ==
    \A f \in Jobs :
        (/\ DispatchReturned
         /\ maxthreads = 2
         /\ hosts = 3
         /\ {j \in Jobs : ConnectFailed(j)} = {f})
        => /\ LogLines = <<DeviceName(f)>>
           /\ \A j \in Jobs \ {f} :
                 /\ result[j] = "returned"
                 /\ Cardinality(Issued(j, "command")) = Len(commands)
                 /\ Closed(j)

\* 3 jobs, 2 workers, one unreachable host.
C11_Witness ==
    /\ DispatchReturned
    /\ maxthreads = 2
    /\ hosts = 3
    /\ \E f \in Jobs :
          /\ ConnectFailed(f)
          /\ failure_log = log_at_start \o LogLine(DeviceName(f))
          /\ \A j \in Jobs \ {f} : AllOk(j) /\ result[j] = "returned"

\* C12: when connect() fails for a job with protocol ssh, no set_enable(),
\* disable_paging() or command() is issued for that job, and
\* device_connection does not raise.
C12_SshShortCircuit ==
    \A j \in Jobs :
        (protocol = "ssh" /\ ConnectFailed(j)) =>
            /\ Issued(j, "set_enable") = {}
            /\ Issued(j, "disable_paging") = {}
            /\ Issued(j, "command") = {}
            /\ result[j] # "raised"

\* C13: whenever set_enable() or disable_paging() has failed for a job and
\* device_connection has ended for it, the job's device name is in the
\* failure log, and no command of the job has been issued.
C13_ConnectionPhaseFailureLogged ==
    \A j \in Jobs :
        (/\ result[j] # "none"
         /\ \E k \in Issued(j, "set_enable") \cup Issued(j, "disable_paging") :
               ~trace[j][k].ok)
        => /\ Occurrences(LogLines, DeviceName(j)) >= 1
           /\ Issued(j, "command") = {}

\* C14: a failing command() is not caught: it is the last call of its job
\* (no later command, no close), device_connection has raised, and the
\* unit that ran the job has ended while still holding that job (a worker
\* has dequeued nothing more; on the main thread no later job has been
\* started).  No other worker is ended by it: each ended worker other
\* than this one holds a different job, which has raised itself.
C14_CommandFailurePropagates ==
    \A j \in Jobs : \A k \in Issued(j, "command") :
        ~trace[j][k].ok =>
            LET u == trace[j][k].by IN
            /\ k = Len(trace[j])
            /\ result[j] = "raised"
            /\ pc[u] = "died"
            /\ job[u] = j
            /\ invocations[j] = 1
            /\ u = 0 => \A l \in Jobs : l > j => ~Started(l)
            /\ \A w \in Workers \ {u} :
                  pc[w] = "died" => job[w] # j /\ result[job[w]] = "raised"

\* The first command of a job has failed on one worker while the other
\* worker is in the middle of its own job.
C14_Witness ==
    /\ threaded
    /\ \E j \in Jobs : \E u, w \in Workers :
          /\ u # w
          /\ Len(trace[j]) = 4
          /\ trace[j][4] = Call("command", commands[1], u, FALSE)
          /\ pc[u] = "died"
          /\ pc[w] = "command"
          /\ job[w] # j

\* C15: a worker has left its loop normally (break, line 141) only with
\* the queue found empty, and when the pooled dispatch has returned the
\* queue is empty (drained).
C15_DrainedAtReturn ==
    /\ \A w \in Workers : pc[w] = "exited" => device_queue = <<>>
    /\ DispatchReturned => device_queue = <<>>

IsSuffix(s, t) == Len(s) <= Len(t) /\ SubSeq(t, Len(t) - Len(s) + 1, Len(t)) = s

\* A worker thread has been started.
WorkerStarted == \E w \in Workers : pc[w] # "unstarted"

\* The jobs a worker has taken from the queue (line 139) and not yet
\* handed to device_connection (line 142).
Dequeued == {job[w] : w \in {v \in Workers : pc[v] = "call"}}

\* C16: in pooled mode the main thread is past its put loop as soon as a
\* worker has been started, and from then on the jobs on the queue, the
\* jobs just dequeued and the jobs handed to device_connection are
\* together the N jobs of the run;
\* no step taken while a worker has been started adds to the queue (the
\* queue after the step is a suffix of the queue before it).
C16_JobsFixedAtDispatch ==
    /\ [](threaded =>
            /\ WorkerStarted => pc[0] \notin {"put", "put_count", "loop"}
            /\ (WorkerStarted \/ pc[0] \in {"start", "join", "done"}) =>
                  /\ Len(device_queue) + Cardinality(Dequeued)
                        + RunnerInvocations = hosts
                  /\ \A j \in Jobs :
                        \/ Started(j)
                        \/ j \in Dequeued
                        \/ \E k \in 1..Len(device_queue) : device_queue[k] = j)
    /\ [][WorkerStarted => IsSuffix(device_queue', device_queue)]_vars

\* Two workers are running and have taken two of the three jobs.
C16_Witness ==
    /\ threaded
    /\ hosts = 3
    /\ pc[1] = "connect"
    /\ pc[2] = "command"
    /\ device_queue = <<3>>

\* C18: a session (the adapter object of one device_connection call, and
\* so of one job) is used by one unit only: all calls recorded for a job
\* are by the same unit, a job in progress with calls issued is the current
\* job of that unit, two workers never hold the same job, nothing follows a
\* close(); and in every step a call is added to a job's session only by
\* the unit that currently runs that job, and never once device_connection
\* has ended for the job.
C18_SessionExclusive ==
    /\ [](/\ \A j \in Jobs : \A k, l \in 1..Len(trace[j]) :
                trace[j][k].by = trace[j][l].by
          /\ \A j \in Jobs :
                (InProgress(j) /\ trace[j] # <<>>) => job[trace[j][1].by] = j
          /\ \A u, w \in Workers :
                (u # w /\ job[u] # 0) => job[u] # job[w]
          /\ \A j \in Jobs : \A k \in Issued(j, "close") : k = Len(trace[j]))
    /\ [][\A j \in Jobs :
            trace'[j] # trace[j] =>
                /\ result[j] = "none"
                /\ \E u \in Units : \E op \in {"connect", "set_enable",
                        "disable_paging", "command", "close"} :
                     \E arg \in 0..NumCommands : \E ok \in BOOLEAN :
                        /\ job[u] = j
                        /\ trace'[j] = Append(trace[j], Call(op, arg, u, ok))
       ]_vars

\* Both workers are in the middle of a job, and one of them has run and
\* closed another job before.
C18_Witness ==
    /\ threaded
    /\ pc[1] = "command"
    /\ pc[2] = "disable_paging"
    /\ \E j \in Jobs : result[j] = "returned" /\ trace[j][1].by = 1
                       /\ job[1] # j

\* The lines of failure.log that were not in it when the run began.
AddedLines ==
    FileLines(SubSeq(failure_log, Len(log_at_start) + 1, Len(failure_log)))

\* C19: in every state the failure log is what the run found followed by
\* lines each of which is the device name of a job of this run whose
\* connect() has failed; and a name is among these lines at most as often
\* as there are jobs of that name whose connect() has failed (no line for
\* a job whose connect() succeeded, at most one line for a job).
C19_FailureLogSound ==
    /\ IsPrefix(log_at_start, failure_log)
    /\ \A k \in 1..Len(AddedLines) :
          \E j \in Jobs : AddedLines[k] = DeviceName(j) /\ ConnectFailed(j)
    /\ \A n \in Names :
          Occurrences(AddedLines, n) <= Cardinality(FailedNamed(n))

Min(a, b) == IF a <= b THEN a ELSE b

\* The workers that have been started and have not ended.
Live == {w \in Workers : pc[w] \notin Dead \cup {"unstarted"}}

JobsInProgress == {j \in Jobs : InProgress(j)}

\* The sessions that are open: connect() has returned and close() has not
\* been called (a session left open by a job that raised stays open).
OpenSessions ==
    {j \in Jobs : (\E k \in Issued(j, "connect") : trace[j][k].ok)
                  /\ ~Closed(j)}

\* The workers that have been started (line 218).
StartedWorkers == {w \in Workers : pc[w] # "unstarted"}

\* C20: in pooled mode the workers started are never more than maxthreads,
\* and exactly maxthreads once the start loop has run to its end; they
\* are the threads of the list `threads` and, between lines 218 and 219,
\* the one just started; every job in progress is the current job of
\* exactly one live worker; the jobs in progress, and the open sessions,
\* number at most min(N, W).  In every step a worker that has ended stays
\* ended, no started worker is started again, and once the main thread
\* has left the start loop no worker becomes live.
C20_BoundedPool ==
    /\ [](threaded =>
            /\ Len(threads) <= maxthreads
            /\ threads = [k \in 1..Len(threads) |-> k]
            /\ Cardinality(StartedWorkers) <= maxthreads
            /\ pc[0] \in {"join", "done"} =>
                  /\ Cardinality(StartedWorkers) = maxthreads
                  /\ Len(threads) = maxthreads
            /\ \A k \in 1..Len(threads) : threads[k] \in StartedWorkers
            /\ Cardinality(StartedWorkers) <= Len(threads) + 1
            /\ pc[0] \in {"start", "join", "done"} =>
                  Cardinality(StartedWorkers) = Len(threads)
            /\ \A j \in JobsInProgress :
                  Cardinality({w \in Live : job[w] = j}) = 1
            /\ Cardinality(JobsInProgress) <= Min(hosts, maxthreads)
            /\ Cardinality(OpenSessions) <= Min(hosts, maxthreads))
    /\ [][threaded =>
            /\ \A w \in Workers : pc[w] \in Dead => pc'[w] = pc[w]
            /\ StartedWorkers \subseteq StartedWorkers'
            /\ pc[0] \in {"join", "done", "interrupted"} =>
                  Live' \subseteq Live
            /\ Len(threads') >= Len(threads)
       ]_vars

\* Both workers of a pool of two have a job in progress, the start loop is
\* over and a third job waits on the queue.
C20_Witness ==
    /\ threaded
    /\ maxthreads = 2
    /\ pc[0] = "join"
    /\ Cardinality(JobsInProgress) = 2
    /\ Cardinality(OpenSessions) = 2
    /\ device_queue = <<3>>

=============================================================================
